---- MODULE Spec2Model ----
(***************************************************************************)
(* tamagoyaki: `update` folds a day's trades into 1-second candles and     *)
(* appends them to the candle table; `generate` reads a date range of the  *)
(* table and resamples it to a coarser interval.                           *)
(*                                                                         *)
(* Time is counted in whole seconds since the epoch; a trade's timestamp   *)
(* is counted in ticks of 1/SubSec second.  A calendar day is DaySecs      *)
(* seconds long (86400 in the program; scaled down here so that several    *)
(* days fit in the state space).  Prices and sizes are integers: the       *)
(* float arithmetic of pandas is modelled as exact.                        *)
(***************************************************************************)
EXTENDS Integers, Sequences, FiniteSets, TLC

\* ------------------------------------------------------------------------
\* Scales and bounds
\* ------------------------------------------------------------------------
DaySecs == 2
SubSec == 2

MaxDay == 1
MaxRuns == 2
MaxTrades == 3
MaxBatches == 2
MaxCandles == 3
MaxInterval == 3
MaxFactor == 2

Symbols == {"BTCUSD", "ETHUSD"}
Sides == {"Buy", "Sell"}
Prices == {1, 2}
Sizes == {1, 2}
Days == 0..MaxDay

\* pandas' missing value, as produced by first/max/min/last of an empty bin
NaN == -1

\* ------------------------------------------------------------------------
\* Helpers on sets and sequences
\* ------------------------------------------------------------------------
SetMax(S) == CHOOSE x \in S : \A y \in S : y <= x
SetMin(S) == CHOOSE x \in S : \A y \in S : x <= y

RECURSIVE SortedSeq(_)
SortedSeq(S) ==
    IF S = {} THEN <<>>
    ELSE LET m == SetMin(S) IN <<m>> \o SortedSeq(S \ {m})

RECURSIVE SumSeq(_)
SumSeq(s) == IF s = <<>> THEN 0 ELSE Head(s) + SumSeq(Tail(s))

RECURSIVE Flatten(_)
Flatten(ss) == IF ss = <<>> THEN <<>> ELSE Head(ss) \o Flatten(Tail(ss))

\* ------------------------------------------------------------------------
\* update: trades of one day -> 1-second candles   (main.py 85-130)
\* ------------------------------------------------------------------------
\* df["datetime"] = to_datetime(timestamp, unit="s").dt.floor("1s")
FloorSec(t) == t \div SubSec

\* np.where(side == "Buy", size, 0) and np.where(side == "Sell", size, 0)
BuySize(r) == IF r.side = "Buy" THEN r.size ELSE 0
SellSize(r) == IF r.side = "Sell" THEN r.size ELSE 0

\* groupby("datetime"): the distinct keys, sorted (sort=True is the default)
GroupKeys(df) == SortedSeq({FloorSec(df[i].timestamp) : i \in DOMAIN df})

\* the rows of one group, in the order they have in the frame
Group(df, k) == SelectSeq(df, LAMBDA r : FloorSec(r.timestamp) = k)

\* agg: price first/max/min/last, size sum, buySize sum, sellSize sum
AggOpen(g) == g[1].price
AggHigh(g) == SetMax({g[i].price : i \in DOMAIN g})
AggLow(g) == SetMin({g[i].price : i \in DOMAIN g})
AggCloseFirst(g) == g[1].price
AggClose(g) == g[Len(g)].price
AggVolume(g) == SumSeq([i \in DOMAIN g |-> g[i].size])
AggBuyVolume(g) == SumSeq([i \in DOMAIN g |-> BuySize(g[i])])
AggSellVolume(g) == SumSeq([i \in DOMAIN g |-> SellSize(g[i])])

\* Candle(exchange="bybit", symbol=symbol, datetime=index, ...)
MakeCandle(symbol, k, g) ==
    [exchange |-> "bybit", symbol |-> symbol, datetime |-> k,
     open |-> AggOpen(g), high |-> AggHigh(g), low |-> AggLow(g),
     close |-> AggClose(g), volume |-> AggVolume(g),
     buy_volume |-> AggBuyVolume(g), sell_volume |-> AggSellVolume(g)]

\* the list `candles` built from one file's frame
MakeCandles(symbol, df) ==
    LET keys == GroupKeys(df)
    IN  [i \in DOMAIN keys |-> MakeCandle(symbol, keys[i], Group(df, keys[i]))]

\* ------------------------------------------------------------------------
\* generate: resample a frame of candles           (main.py 180-195)
\* ------------------------------------------------------------------------
Times(df) == {df[i].datetime : i \in DOMAIN df}

SortByTimeSkipped(df) == df

\* the resampler sorts a frame whose index is not monotonic (stable sort)
SortByTime(df) ==
    LET keys == SortedSeq(Times(df))
    IN  Flatten([i \in DOMAIN keys |->
                    SelectSeq(df, LAMBDA c : c.datetime = keys[i])])

\* Timestamp.normalize(): midnight of the timestamp's day
Normalize(t) == t - (t % DaySecs)

\* resample's default origin="start_day": midnight of the first timestamp's day
ResampleOrigin(df) == Normalize(SetMin(Times(df)))

\* the left edge of the bin holding t (closed="left", label="left")
BinStart(t, origin, interval) == t - ((t - origin) % interval)

\* the bin labels: every edge from the first timestamp's bin to the last's
BinLabels(df, interval) ==
    IF df = <<>> THEN <<>>
    ELSE LET origin == ResampleOrigin(df)
             lo == BinStart(SetMin(Times(df)), origin, interval)
             hi == BinStart(SetMax(Times(df)), origin, interval)
         IN  [k \in 1..(((hi - lo) \div interval) + 1) |-> lo + (k - 1) * interval]

InBin(c, label, interval) == label <= c.datetime /\ c.datetime < label + interval

\* agg over one bin; first/max/min/last of no rows is NaN, a sum of no rows is 0
ResampleRow(sorted, label, interval) ==
    LET g == SelectSeq(sorted, LAMBDA c : InBin(c, label, interval))
    IN  IF g = <<>>
        THEN [datetime |-> label, open |-> NaN, high |-> NaN, low |-> NaN,
              close |-> NaN, volume |-> 0, buy_volume |-> 0, sell_volume |-> 0]
        ELSE [datetime |-> label,
              open |-> g[1].open,
              high |-> SetMax({g[i].high : i \in DOMAIN g}),
              low |-> SetMin({g[i].low : i \in DOMAIN g}),
              close |-> g[Len(g)].close,
              volume |-> SumSeq([i \in DOMAIN g |-> g[i].volume]),
              buy_volume |-> SumSeq([i \in DOMAIN g |-> g[i].buy_volume]),
              sell_volume |-> SumSeq([i \in DOMAIN g |-> g[i].sell_volume])]

\* df.resample(f"{interval}s").agg({...})
ResampleAgg(df, interval) ==
    LET sorted == SortByTime(df)
        labels == BinLabels(df, interval)
    IN  [k \in DOMAIN labels |-> ResampleRow(sorted, labels[k], interval)]

HasNaN(row) ==
    \/ row.open = NaN \/ row.high = NaN \/ row.low = NaN \/ row.close = NaN

DropNaSkipped(rows) == rows

\* df.dropna()
DropNa(rows) == SelectSeq(rows, LAMBDA row : ~HasNaN(row))

\* lines 180-195 together
Resample(df, interval) == DropNa(ResampleAgg(df, interval))

\* ------------------------------------------------------------------------
\* Inputs: the trade archive and the command lines
\* ------------------------------------------------------------------------
\* the ticks of calendar day d
DayTicks(d) == (d * DaySecs * SubSec)..((d + 1) * DaySecs * SubSec - 1)

\* the trade the exchange printed at tick t (at most one per tick here)
Tape(t) ==
    [timestamp |-> t,
     side |-> IF t % 2 = 0 THEN "Buy" ELSE "Sell",
     size |-> 1 + (t % 2),
     price |-> 1 + ((t + (t \div 3)) % 3)]

\* the seconds of calendar day d
DaySeconds(d) == (d * DaySecs)..((d + 1) * DaySecs - 1)

\* the csv files a download of day d can yield: the header alone, or the
\* trades printed in some of the day's seconds, in time order
DayFiles(d) ==
    {[i \in 1..Cardinality(S) |->
        LET sec == SortedSeq(S)[i] IN Tape((sec * SubSec) + (sec % SubSec))] :
        S \in SUBSET DaySeconds(d)}

\* the rows a csv file of day 0 can hold, in any order
TradeRows ==
    [timestamp : DayTicks(0), side : Sides, size : Sizes, price : Prices]

\* the candles a frame of source candles is drawn from: any second of three
\* days, with one of two bodies
SourceBodies ==
    {[open |-> 1, high |-> 2, low |-> 1, close |-> 2,
      volume |-> 3, buy_volume |-> 1, sell_volume |-> 2],
     [open |-> 3, high |-> 3, low |-> 3, close |-> 3,
      volume |-> 1, buy_volume |-> 0, sell_volume |-> 1]}

SourceCandle(t, b) ==
    [exchange |-> "bybit", symbol |-> "BTCUSD", datetime |-> t,
     open |-> b.open, high |-> b.high, low |-> b.low, close |-> b.close,
     volume |-> b.volume, buy_volume |-> b.buy_volume,
     sell_volume |-> b.sell_volume]

SourceTimes == 0..((DaySecs + DaySecs + DaySecs) - 1)

Writers == {1, 2}
GenDays == 0..(MaxDay + 1)
Intervals == (-1)..MaxInterval

VARIABLES
    store,      \* the candle table, in insertion (rowid) order
    upd,        \* upd[w]: where update run w stands
    runs,       \* update runs started so far
    noData,     \* history: the last <<symbol, day>> whose download failed or
                \* held no trade
    gen,        \* where the generate call stands
    agg,        \* SpecAggregate: one csv frame and the candles built from it
    rs          \* SpecResample: source candles resampled in one and two stages

vars == <<store, upd, runs, noData, gen, agg, rs>>

\* `seen` is history: the number of rows the table held when the run made
\* the existence check of its current date
Idle == [pc |-> "idle", run |-> 0, symbol |-> "", begin |-> 0, end |-> 0,
         day |-> 0, seen |-> 0, candles |-> <<>>]

GenIdle == [pc |-> "idle", symbol |-> "", begin |-> 0, end |-> 0,
            interval |-> 1, df |-> <<>>, rows |-> <<>>,
            queried |-> FALSE, written |-> FALSE]

\* ------------------------------------------------------------------------
\* update                                               (main.py 32-134)
\* ------------------------------------------------------------------------
\* strptime(date, "%Y%m%d"): midnight of the day
Midnight(d) == d * DaySecs

ExistsCheckMoreThanOne(table, symbol, d) ==
    Cardinality({i \in DOMAIN table :
                    /\ table[i].exchange = "bybit"
                    /\ table[i].symbol = symbol
                    /\ table[i].datetime = Midnight(d)}) > 1

\* query.filter(exchange == "bybit").filter(symbol == symbol)
\*      .filter(Candle.datetime == date).count() > 0
ExistsCheck(table, symbol, d) ==
    Cardinality({i \in DOMAIN table :
                    /\ table[i].exchange = "bybit"
                    /\ table[i].symbol = symbol
                    /\ table[i].datetime = Midnight(d)}) > 0

\* db.session.add_all(candles); db.session.commit()
AddAll(table, cs) == table \o cs

NextDateBreak(u) == Idle

\* `continue`, or the end of the loop body: the next date of date_range
NextDate(u) ==
    IF u.day + 1 > u.end THEN Idle
    ELSE [u EXCEPT !.pc = "check", !.day = u.day + 1, !.seen = 0,
                   !.candles = <<>>]

\* the command starts: date_range = begin .. end, both inclusive
UpdateStart(w, symbol, begin, end) ==
    /\ upd[w].pc = "idle"
    /\ runs < MaxRuns
    /\ runs' = runs + 1
    /\ upd' = [upd EXCEPT ![w] =
                 IF begin > end THEN Idle
                 ELSE [pc |-> "check", run |-> runs + 1, symbol |-> symbol,
                       begin |-> begin, end |-> end, day |-> begin,
                       seen |-> 0, candles |-> <<>>]]
    /\ UNCHANGED <<store, noData, gen, agg, rs>>

\* lines 59-66: skip the date when a candle is stored at its midnight
UpdateCheck(w) ==
    /\ upd[w].pc = "check"
    /\ IF ExistsCheck(store, upd[w].symbol, upd[w].day)
       THEN upd' = [upd EXCEPT ![w] = NextDate(upd[w])]
       ELSE upd' = [upd EXCEPT ![w].pc = "fetch", ![w].seen = Len(store)]
    /\ UNCHANGED <<store, runs, noData, gen, agg, rs>>

\* lines 73-77: the download failed
UpdateFetchFail(w) ==
    /\ upd[w].pc = "fetch"
    /\ upd' = [upd EXCEPT ![w] = NextDate(upd[w])]
    /\ noData' = <<upd[w].symbol, upd[w].day>>
    /\ UNCHANGED <<store, runs, gen, agg, rs>>

\* lines 79-130: the download succeeded; the candles of the file are built
UpdateFetchOk(w) ==
    /\ upd[w].pc = "fetch"
    /\ \E file \in DayFiles(upd[w].day) :
          /\ upd' = [upd EXCEPT ![w].pc = "insert",
                                ![w].candles = MakeCandles(upd[w].symbol, file)]
          /\ noData' = IF file = <<>>
                       THEN <<upd[w].symbol, upd[w].day>>
                       ELSE noData
    /\ UNCHANGED <<store, runs, gen, agg, rs>>

\* lines 132-134
UpdateInsert(w) ==
    /\ upd[w].pc = "insert"
    /\ store' = AddAll(store, upd[w].candles)
    /\ upd' = [upd EXCEPT ![w] = NextDate(upd[w])]
    /\ UNCHANGED <<runs, noData, gen, agg, rs>>

\* ------------------------------------------------------------------------
\* generate                                            (main.py 138-202)
\* ------------------------------------------------------------------------
QueryRangeEndExclusive(table, symbol, begin, end) ==
    SelectSeq(table, LAMBDA c :
        /\ c.exchange = "bybit"
        /\ c.symbol = symbol
        /\ c.datetime >= Midnight(begin)
        /\ c.datetime < Midnight(end))

\* the four filters of lines 163-167, rows in rowid order
QueryRange(table, symbol, begin, end) ==
    SelectSeq(table, LAMBDA c :
        /\ c.exchange = "bybit"
        /\ c.symbol = symbol
        /\ c.datetime >= Midnight(begin)
        /\ c.datetime <= Midnight(end))

GenStart(symbol, begin, end, interval) ==
    /\ gen.pc = "idle"
    /\ gen' = [GenIdle EXCEPT !.pc = "query", !.symbol = symbol,
                              !.begin = begin, !.end = end,
                              !.interval = interval]
    /\ UNCHANGED <<store, upd, runs, noData, agg, rs>>

\* line 169: read_sql runs the query, whatever the interval
GenQuery ==
    /\ gen.pc = "query"
    /\ gen' = [gen EXCEPT !.pc = "resample", !.queried = TRUE,
                          !.df = QueryRange(store, gen.symbol, gen.begin, gen.end)]
    /\ UNCHANGED <<store, upd, runs, noData, agg, rs>>

\* lines 180-195
GenResample ==
    /\ gen.pc = "resample"
    /\ gen.interval > 0
    /\ gen' = [gen EXCEPT !.pc = "write",
                          !.rows = Resample(gen.df, gen.interval)]
    /\ UNCHANGED <<store, upd, runs, noData, agg, rs>>

\* line 182 with a frequency that is not positive: nothing in generate
\* checks the interval, so what happens is pandas' doing: it raises, or it
\* finds nothing to bin and hands back an empty frame
GenResampleBad ==
    /\ gen.pc = "resample"
    /\ gen.interval <= 0
    /\ \/ gen' = [gen EXCEPT !.pc = "failed"]
       \/ gen' = [gen EXCEPT !.pc = "write", !.rows = <<>>]
    /\ UNCHANGED <<store, upd, runs, noData, agg, rs>>

\* lines 197-202
GenWrite ==
    /\ gen.pc = "write"
    /\ gen' = [gen EXCEPT !.pc = "done", !.written = TRUE]
    /\ UNCHANGED <<store, upd, runs, noData, agg, rs>>

\* ------------------------------------------------------------------------
\* Specifications
\* ------------------------------------------------------------------------
AggIdle == [pc |-> "read", df |-> <<>>, candles |-> <<>>]
RsIdle == [pc |-> "source", src |-> <<>>, x |-> 1, y |-> 1,
           viaX |-> <<>>, twoStage |-> <<>>, direct |-> <<>>]

InitRest == agg = AggIdle /\ rs = RsIdle

\* update runs executed one at a time
Init ==
    /\ store = <<>>
    /\ upd = [w \in Writers |-> Idle]
    /\ runs = 0
    /\ noData = <<>>
    /\ gen = GenIdle
    /\ InitRest

Next ==
    \/ \E s \in Symbols, b \in Days, e \in Days : UpdateStart(1, s, b, e)
    \/ UpdateCheck(1)
    \/ UpdateFetchFail(1)
    \/ UpdateFetchOk(1)
    \/ UpdateInsert(1)

Spec == Init /\ [][Next]_vars

\* line 83: read_csv reads one more row of the file
ReadRow(r) ==
    /\ agg.pc = "read"
    /\ Len(agg.df) < MaxTrades
    /\ agg' = [agg EXCEPT !.df = Append(@, r)]
    /\ UNCHANGED <<store, upd, runs, noData, gen, rs>>

\* lines 85-130 on the frame read
Aggregate ==
    /\ agg.pc = "read"
    /\ agg' = [agg EXCEPT !.pc = "built",
                          !.candles = MakeCandles("BTCUSD", agg.df)]
    /\ UNCHANGED <<store, upd, runs, noData, gen, rs>>

InitAggregate ==
    /\ store = <<>> /\ upd = [w \in Writers |-> Idle] /\ runs = 0
    /\ noData = <<>> /\ gen = GenIdle /\ rs = RsIdle
    /\ agg = AggIdle

NextAggregate ==
    \/ \E r \in TradeRows : ReadRow(r)
    \/ Aggregate

SpecAggregate == InitAggregate /\ [][NextAggregate]_vars

\* one date of an update run whose download succeeds, start to end
InsertDay(table, symbol, d, file) ==
    IF ExistsCheck(table, symbol, d) THEN table
    ELSE AddAll(table, MakeCandles(symbol, file))

RECURSIVE Populate(_)
Populate(bs) ==
    IF bs = <<>> THEN <<>>
    ELSE LET b == bs[Len(bs)]
         IN  InsertDay(Populate(SubSeq(bs, 1, Len(bs) - 1)), b[1], b[2], b[3])

DownloadChoices ==
    UNION {{<<s, d, f>> : f \in DayFiles(d)} : s \in Symbols, d \in Days}

\* generate calls on a table that earlier update runs filled
InitGenerate ==
    /\ \E n \in 0..MaxBatches : \E bs \in [1..n -> DownloadChoices] :
          store = Populate(bs)
    /\ upd = [w \in Writers |-> Idle] /\ runs = 0 /\ noData = <<>>
    /\ gen = GenIdle
    /\ InitRest

NextGenerate ==
    \/ \E s \in Symbols, b \in GenDays, e \in GenDays, n \in Intervals :
          GenStart(s, b, e, n)
    \/ GenQuery
    \/ GenResample
    \/ GenResampleBad
    \/ GenWrite

SpecGenerate == InitGenerate /\ [][NextGenerate]_vars

\* one more row of the frame read_sql returns, at a second no row has yet
AddSource(t, b) ==
    /\ rs.pc = "source"
    /\ Len(rs.src) < MaxCandles
    /\ t \notin Times(rs.src)
    /\ rs' = [rs EXCEPT !.src = Append(@, SourceCandle(t, b))]
    /\ UNCHANGED <<store, upd, runs, noData, gen, agg>>

\* lines 180-195 at interval x and then, on the result, at a multiple y of
\* x; and at y on the frame itself
ResampleTwice(x, y) ==
    /\ rs.pc = "source"
    /\ y % x = 0
    /\ LET viaX == Resample(rs.src, x)
       IN  rs' = [rs EXCEPT !.pc = "done", !.x = x, !.y = y,
                            !.viaX = viaX,
                            !.twoStage = Resample(viaX, y),
                            !.direct = Resample(rs.src, y)]
    /\ UNCHANGED <<store, upd, runs, noData, gen, agg>>

InitResample ==
    /\ store = <<>> /\ upd = [w \in Writers |-> Idle] /\ runs = 0
    /\ noData = <<>> /\ gen = GenIdle /\ agg = AggIdle
    /\ rs = RsIdle

NextResample ==
    \/ \E t \in SourceTimes, b \in SourceBodies : AddSource(t, b)
    \/ \E x \in 1..MaxInterval, m \in 1..MaxFactor : ResampleTwice(x, x * m)

SpecResample == InitResample /\ [][NextResample]_vars

\* two update processes at once, each one run, process 1 started first
NextWriters ==
    \/ \E w \in Writers, s \in Symbols, b \in Days, e \in Days :
          runs = w - 1 /\ UpdateStart(w, s, b, e)
    \/ \E w \in Writers : UpdateCheck(w)
    \/ \E w \in Writers : UpdateFetchFail(w)
    \/ \E w \in Writers : UpdateFetchOk(w)
    \/ \E w \in Writers : UpdateInsert(w)

SpecWriters == Init /\ [][NextWriters]_vars

\* ------------------------------------------------------------------------
\* Properties of update
\* ------------------------------------------------------------------------
DayOf(t) == t \div DaySecs

\* the stored candles of (bybit, symbol) whose timestamp lies in day d
DayCandles(table, symbol, d) ==
    SelectSeq(table, LAMBDA c :
        c.exchange = "bybit" /\ c.symbol = symbol /\ DayOf(c.datetime) = d)

SameKey(a, b) ==
    a.exchange = b.exchange /\ a.symbol = b.symbol /\ a.datetime = b.datetime

\* C1: whole-day idempotence.  While a run works on a day of which the table
\* already holds a candle, whatever its second, no step changes the table's
\* candles of that day.
C1_WholeDaySkip ==
    [][\A w \in Writers :
          (/\ upd[w].pc # "idle"
           /\ DayCandles(store, upd[w].symbol, upd[w].day) # <<>>)
          => DayCandles(store', upd[w].symbol, upd[w].day)
               = DayCandles(store, upd[w].symbol, upd[w].day)]_vars

\* C2: natural-key uniqueness.  With update runs executed one at a time the
\* table never holds two candles with the same (exchange, symbol, timestamp).
C2_UniqueKeys ==
    \A i, j \in DOMAIN store : SameKey(store[i], store[j]) => i = j

\* the run moved on to the next date of its range, or ended after the last
Advanced(u, v) ==
    IF u.day < u.end
    THEN /\ v.pc = "check" /\ v.day = u.day + 1
         /\ v.run = u.run /\ v.symbol = u.symbol /\ v.end = u.end
    ELSE v.pc = "idle"

\* C8: empty input is not an error.  A failed download, and a file with no
\* trade, leave the table as it is and the run goes on with the next date;
\* and a run that comes to a date of which nothing is stored downloads it.
C8_EmptyInputSkipsDay ==
    [][\A w \in Writers :
          /\ (upd[w].pc = "fetch" /\ upd'[w] # upd[w] /\ upd'[w].pc # "insert")
                => (store' = store /\ Advanced(upd[w], upd'[w]))
          /\ (upd[w].pc = "fetch" /\ upd'[w].pc = "insert"
                    /\ upd'[w].candles = <<>>)
                => store' = store
          /\ (upd[w].pc = "insert" /\ upd[w].candles = <<>> /\ upd'[w] # upd[w])
                => (store' = store /\ Advanced(upd[w], upd'[w]))
          /\ (upd[w].pc = "check" /\ upd'[w] # upd[w]
                    /\ DayCandles(store, upd[w].symbol, upd[w].day) = <<>>)
                => (upd'[w].pc = "fetch" /\ upd'[w].day = upd[w].day)]_vars

\* a later run downloads a date again whose earlier download gave no trade,
\* after the earlier run went on to the dates that followed
C8_Witness ==
    \E w \in Writers :
        /\ upd[w].pc = "fetch" /\ upd[w].run > 1
        /\ upd[w].day < upd[w].end
        /\ noData = <<upd[w].symbol, upd[w].day>>
        /\ DayCandles(store, upd[w].symbol, upd[w].day) = <<>>
        /\ DayCandles(store, upd[w].symbol, upd[w].day + 1) # <<>>

\* ------------------------------------------------------------------------
\* Properties of the aggregation
\* ------------------------------------------------------------------------
TimeOrdered(f) ==
    \A i, j \in DOMAIN f : i < j => f[i].timestamp <= f[j].timestamp

\* the accumulator opened by a trade
OpenBucket(r) ==
    [datetime |-> r.timestamp \div SubSec,
     open |-> r.price, high |-> r.price, low |-> r.price, close |-> r.price,
     volume |-> r.size,
     buy_volume |-> IF r.side = "Buy" THEN r.size ELSE 0,
     sell_volume |-> IF r.side = "Sell" THEN r.size ELSE 0]

\* a trade of the accumulator's bucket folded into it
UpdateBucket(a, r) ==
    [datetime |-> a.datetime,
     open |-> a.open,
     high |-> IF r.price > a.high THEN r.price ELSE a.high,
     low |-> IF r.price < a.low THEN r.price ELSE a.low,
     close |-> r.price,
     volume |-> a.volume + r.size,
     buy_volume |-> a.buy_volume + (IF r.side = "Buy" THEN r.size ELSE 0),
     sell_volume |-> a.sell_volume + (IF r.side = "Sell" THEN r.size ELSE 0)]

\* the single pass: the candles emitted so far, then the open accumulator
RECURSIVE SinglePass(_)
SinglePass(f) ==
    IF f = <<>> THEN <<>>
    ELSE LET before == SinglePass(SubSeq(f, 1, Len(f) - 1))
             r == f[Len(f)]
         IN  IF before # <<>>
                /\ before[Len(before)].datetime = r.timestamp \div SubSec
             THEN [before EXCEPT ![Len(before)] = UpdateBucket(@, r)]
             ELSE Append(before, OpenBucket(r))

OhlcvOf(c) ==
    [datetime |-> c.datetime, open |-> c.open, high |-> c.high, low |-> c.low,
     close |-> c.close, volume |-> c.volume, buy_volume |-> c.buy_volume,
     sell_volume |-> c.sell_volume]

\* C3: for trades in time order the candles built are those of the single
\* pass: one per second that holds a trade, in ascending order, with open
\* and close the first and last price of the second, high and low the
\* largest and smallest, and the volumes the sums of the sizes.
C3_AggregationIsSinglePassFold ==
    (agg.pc = "built" /\ TimeOrdered(agg.df))
    => /\ [i \in DOMAIN agg.candles |-> OhlcvOf(agg.candles[i])]
            = SinglePass(agg.df)
       /\ \A i, j \in DOMAIN agg.candles :
            i < j => agg.candles[i].datetime < agg.candles[j].datetime
       /\ {agg.candles[i].datetime : i \in DOMAIN agg.candles}
            = {agg.df[i].timestamp \div SubSec : i \in DOMAIN agg.df}
       /\ \A i \in DOMAIN agg.candles :
            LET c == agg.candles[i]
                I == {n \in DOMAIN agg.df :
                        agg.df[n].timestamp \div SubSec = c.datetime}
                lo == CHOOSE n \in I : \A m \in I : n <= m
                hi == CHOOSE n \in I : \A m \in I : m <= n
            IN  /\ c.exchange = "bybit"
                /\ c.open = agg.df[lo].price
                /\ c.close = agg.df[hi].price
                /\ \A n \in I : c.low <= agg.df[n].price
                                 /\ agg.df[n].price <= c.high
                /\ \E n \in I : agg.df[n].price = c.high
                /\ \E n \in I : agg.df[n].price = c.low
                /\ (Cardinality(I) = 1 =>
                      /\ c.open = c.high /\ c.high = c.low /\ c.low = c.close
                      /\ c.volume = agg.df[lo].size)

\* a frame of MaxTrades trades over two seconds, the first second holding a
\* buy and a sell at rising prices
C3_Witness ==
    /\ agg.pc = "built" /\ TimeOrdered(agg.df)
    /\ Len(agg.df) = MaxTrades
    /\ Len(agg.candles) = 2
    /\ agg.candles[1].open # agg.candles[1].close
    /\ agg.candles[1].high > agg.candles[1].open
    /\ agg.candles[1].buy_volume > 0 /\ agg.candles[1].sell_volume > 0

\* ------------------------------------------------------------------------
\* Properties of generate
\* ------------------------------------------------------------------------
Resampled == gen.pc \in {"write", "done"} /\ gen.interval > 0

\* C4: resampler buckets are aligned to the epoch.  Every source candle with
\* timestamp t is counted in the output row with timestamp t - (t mod
\* interval), so every row's timestamp is a multiple of the interval.
C4_EpochAlignedBuckets ==
    Resampled
    => /\ \A k \in DOMAIN gen.rows : gen.rows[k].datetime % gen.interval = 0
       /\ \A i \in DOMAIN gen.df :
            \E k \in DOMAIN gen.rows :
                gen.rows[k].datetime
                    = gen.df[i].datetime - (gen.df[i].datetime % gen.interval)

CandlesIn(row) ==
    {i \in DOMAIN gen.df :
        /\ row.datetime <= gen.df[i].datetime
        /\ gen.df[i].datetime < row.datetime + gen.interval}

\* C5: no gap filling.  The output rows are buckets of one grid, in
\* ascending order; every row holds a source candle, every source candle is
\* in a row, and a bucket without a source candle has no row.  Candles at
\* seconds 0, 1 and 3 resampled to 2 seconds give the rows 0 and 2, row 2
\* built from the candle at second 3 alone.
C5_NoGapFilling ==
    Resampled
    => /\ \A k \in DOMAIN gen.rows :
            /\ CandlesIn(gen.rows[k]) # {}
            /\ ~HasNaN(gen.rows[k])
            /\ k > 1 =>
                 /\ gen.rows[k].datetime >= gen.rows[k - 1].datetime + gen.interval
                 /\ (gen.rows[k].datetime - gen.rows[k - 1].datetime)
                        % gen.interval = 0
       /\ \A i \in DOMAIN gen.df :
            \E k \in DOMAIN gen.rows : i \in CandlesIn(gen.rows[k])
       /\ ([i \in DOMAIN gen.df |-> gen.df[i].datetime] = <<0, 1, 3>>
                /\ gen.interval = 2)
            => /\ [k \in DOMAIN gen.rows |-> gen.rows[k].datetime] = <<0, 2>>
               /\ gen.rows[2] = [OhlcvOf(gen.df[3]) EXCEPT !.datetime = 2]

\* two rows with an empty bucket between them, which has no row
C5_Witness ==
    /\ Resampled
    /\ \E k \in DOMAIN gen.rows :
          /\ k > 1
          /\ gen.rows[k].datetime > gen.rows[k - 1].datetime + gen.interval

\* C6: resampling is associative.  For source candles with unique
\* timestamps and Y a multiple of X, resampling at X and the result at Y
\* gives the rows of resampling the source at Y.
C6_ResampleAssociative ==
    rs.pc = "done" => rs.twoStage = rs.direct

\* a source that starts after day 0, an interval Y that does not divide the
\* day, and a row at Y made of several rows at X
C6_Witness ==
    /\ rs.pc = "done"
    /\ rs.x < rs.y /\ DaySecs % rs.y # 0
    /\ Len(rs.src) = MaxCandles
    /\ \A i \in DOMAIN rs.src : rs.src[i].datetime >= DaySecs
    /\ rs.src[1].datetime > rs.src[2].datetime
    /\ Len(rs.viaX) > Len(rs.direct)
    /\ Len(rs.direct) >= 1

\* C7: a non-positive interval is rejected before processing.  A call with
\* interval <= 0 never queries the table and never writes the output file.
C7_RejectedBeforeQuery ==
    (gen.pc # "idle" /\ gen.interval <= 0)
    => (~gen.queried /\ ~gen.written /\ gen.pc \in {"query", "failed"})

SecondOfDay(t) == t % DaySecs

\* the rows of the table, by position, that a frame of the query holds
InRange(c) ==
    /\ c.exchange = "bybit" /\ c.symbol = gen.symbol
    /\ gen.begin <= DayOf(c.datetime)
    /\ \/ DayOf(c.datetime) < gen.end
       \/ DayOf(c.datetime) = gen.end /\ SecondOfDay(c.datetime) = 0

RECURSIVE Keep(_)
Keep(table) ==
    IF table = <<>> THEN <<>>
    ELSE IF InRange(Head(table)) THEN <<Head(table)>> \o Keep(Tail(table))
    ELSE Keep(Tail(table))

\* C10: generate resamples exactly the stored candles of (bybit, symbol)
\* from begin 00:00:00 to end 00:00:00, both inclusive: of the end date only
\* a candle at midnight, though update stores the other seconds of that
\* date too; and no step of generate changes the table.
C10_RangeRead ==
    /\ [](gen.queried =>
            /\ gen.df = Keep(store)
            /\ \A i \in DOMAIN gen.df :
                  /\ gen.df[i].datetime <= Midnight(gen.end)
                  /\ DayOf(gen.df[i].datetime) = gen.end
                        => SecondOfDay(gen.df[i].datetime) = 0)
    /\ [][gen' # gen => store' = store]_vars

\* the table holds two candles of the end date, one at midnight, which the
\* query returns, and one later in the day, which it leaves out
C10_Witness ==
    /\ gen.queried
    /\ \E i \in DOMAIN gen.df : gen.df[i].datetime = Midnight(gen.end)
    /\ \E j \in DOMAIN store :
          /\ store[j].symbol = gen.symbol
          /\ DayOf(store[j].datetime) = gen.end
          /\ SecondOfDay(store[j].datetime) > 0

\* C9: a run goes on to download and insert a date only if the rows its
\* existence check saw held no candle at that date's midnight: a check made
\* after another run committed such a candle skips the date.
C9_CheckSeesCommit ==
    \A w \in Writers :
        upd[w].pc \in {"fetch", "insert"}
        => ~\E i \in 1..upd[w].seen :
               /\ store[i].exchange = "bybit"
               /\ store[i].symbol = upd[w].symbol
               /\ store[i].datetime = Midnight(upd[w].day)

\* both runs made the check before either committed, and both inserted: the
\* table holds the same midnight candle twice
C9_Witness ==
    \E i, j \in DOMAIN store :
        /\ i < j /\ SameKey(store[i], store[j])
        /\ store[i].datetime = Midnight(DayOf(store[i].datetime))
====
